---- MODULE Spec2Model ----
(***************************************************************************)
(* gh-space-shooter: the simulation state (game_state.py), the frame       *)
(* renderer (renderer.py), the frame sequencer (animator.py) and the web   *)
(* entry points (app/src/main.py) as one state machine.                    *)
(*                                                                         *)
(* Python lists are TLA+ sequences (1-based); week and day indices keep    *)
(* their 0-based Python values inside the records.                         *)
(***************************************************************************)
EXTENDS Integers, Sequences, FiniteSets

\* ------------------------------------------------------------------ sizes
\* constants.NUM_WEEKS is 52 and constants.NUM_DAYS is 7 in the program
\* (game_state.py:39-40); the model keeps the grid small. The theorems below hold
\* as well with NUM_DAYS == 2 (a 2 x 2 grid, about 200,000 states).
NUM_WEEKS == 2
NUM_DAYS == 1
\* highest contribution level of a cell of the input grid
MaxLevel == 2
\* longest action sequence a caller-supplied strategy yields
MaxActions == 2
\* most bullets the free-standing GameState operations let accumulate
MaxBullets == 2
\* the frame ceiling the web layer passes (250 at main.py:41), scaled with the grid
maxFrame == 8
\* highest level of a cell of the grids painted directly, above the colour table's keys
TopLevel == 6

\* ------------------------------------------------------- renderer constants
CELL_SIZE == 12
CELL_SPACING == 2
padding == 40
COLOR_BACKGROUND == <<13, 17, 23>>
COLOR_EMPTY == <<22, 27, 34>>
COLOR_SHIP == <<88, 166, 255>>
COLOR_BULLET == <<255, 223, 0>>
\* the dict keyed 1..4, as a function on 1..4
COLOR_ENEMY == <<<<0, 109, 50>>, <<38, 166, 65>>, <<57, 211, 83>>, <<87, 242, 135>>>>
bullet_flight_steps == 5
radius == 3
width == NUM_WEEKS * (CELL_SIZE + CELL_SPACING) + 2 * padding
height == NUM_DAYS * (CELL_SIZE + CELL_SPACING) + 2 * padding

\* None of Python, for a name or an object
None == "None"
\* an optional number: Absent for None, Some(x) for x
Absent == <<>>
Some(x) == <<x>>

VARIABLES
  contribution_data, \* the grid: contribution_data[w][d] is the level of week w-1, day d-1
  request,           \* the call being served: [entry, strategy, token]
  http_status,       \* the status the /api/generate handler answered with, if any
  strategy,          \* the strategy the Animator holds: "column", "row", "random", "custom", or None
  max_frame,         \* the maxFrame keyword the caller passed to generate_gif, if any
  actions,           \* the actions the strategy has yielded so far, in order
  action,            \* the loop variable `action` of _generate_frames, or None
  bullet,            \* the local `bullet`: index into bullets of the bullet shoot returned, 0 if none
  step,              \* the loop variable `step` of the flight loop
  pc,                \* position in generate_gif / _generate_frames
  ship,              \* GameState.ship: [week |-> ...]
  enemies,           \* GameState.enemies
  bullets,           \* GameState.bullets
  frames,            \* the local list `frames`: the images rendered so far
  rendered,          \* per rendered frame: its call site and the state it was rendered from
  op                 \* the last GameState operation the process applied: [name, week, day]

vars == <<contribution_data, request, http_status, strategy, max_frame, actions, action,
          bullet, step, pc, ship, enemies, bullets, frames, rendered, op>>

\* ------------------------------------------------------------ input grids
Levels == 0 .. MaxLevel
\* rectangular grids of the configured shape and of every smaller shape
Grids == UNION {[1 .. w -> [1 .. d -> Levels]] : w \in 1 .. NUM_WEEKS, d \in 1 .. NUM_DAYS}
HasShape(data) == Len(data) = NUM_WEEKS /\ \A w \in 1 .. Len(data) : Len(data[w]) = NUM_DAYS
\* the (week, day) pairs of the cells with level > 0
NonEmptyCells(data) == {c \in (0 .. Len(data) - 1) \X (0 .. NUM_DAYS - 1) :
                          c[2] < Len(data[c[1] + 1]) /\ data[c[1] + 1][c[2] + 1] > 0}

\* ------------------------------------------------------------------ Enemy
Enemy(week, day, health) == [week |-> week, day |-> day, health |-> health, max_health |-> health]
\* a take_damage that takes two points
take_damage_two(e) == [e EXCEPT !.health = @ - 2]
take_damage(e) == [e EXCEPT !.health = @ - 1]
is_alive(e) == e.health > 0

\* ----------------------------------------------------------------- Bullet
\* progress is the fraction num/den
Bullet(week, target_day, progress) == [week |-> week, target_day |-> target_day, progress |-> progress]
Fraction(n, d) == [num |-> n, den |-> d]

\* ------------------------------------------------------------------- Ship
\* a ship that starts on the first column
Ship_on_grid == [week |-> 0]
Ship == [week |-> -1]
\* a move_to that leaves the ship where it is
move_to_stays(s, week) == s
move_to(s, week) == [s EXCEPT !.week = week]

\* -------------------------------------------------------------- GameState
\* an initialisation that creates an enemy for every cell, level 0 included
WeekEnemies_every_cell(days, week_idx, n) == [k \in 1 .. n |-> Enemy(week_idx, k - 1, days[k])]

RECURSIVE WeekEnemies(_, _, _)
\* the enemies of the first n days of one week, in day order
WeekEnemies(days, week_idx, n) ==
  IF n = 0 THEN <<>>
  ELSE LET level == days[n]
           before == WeekEnemies(days, week_idx, n - 1)
       IN IF level > 0 THEN Append(before, Enemy(week_idx, n - 1, level)) ELSE before

RECURSIVE GridEnemies(_, _)
\* the enemies of the first n weeks, in week order
GridEnemies(weeks, n) ==
  IF n = 0 THEN <<>>
  ELSE GridEnemies(weeks, n - 1) \o WeekEnemies(weeks[n], n - 1, Len(weeks[n]))

initialize_enemies(data) == GridEnemies(data, Len(data))

\* a get_enemy_at that forgets the is_alive() test
get_enemy_at_dead_too(es, week, day) ==
  LET found == {i \in 1 .. Len(es) : es[i].week = week /\ es[i].day = day}
  IN IF found = {} THEN 0 ELSE CHOOSE i \in found : \A j \in found : i <= j

\* index of the first live enemy at (week, day), 0 for None
get_enemy_at(es, week, day) ==
  LET found == {i \in 1 .. Len(es) : es[i].week = week /\ es[i].day = day /\ is_alive(es[i])}
  IN IF found = {} THEN 0 ELSE CHOOSE i \in found : \A j \in found : i <= j

\* a shoot that replaces the collection by the new bullet
shoot_replaces(bs, week, day) == <<Bullet(week, day, Fraction(0, 1))>>
shoot(bs, week, day) == Append(bs, Bullet(week, day, Fraction(0, 1)))

\* a hit_target that, finding no live enemy at the cell, hits the first live enemy
hit_target_stray(es, week, day) ==
  LET enemy == get_enemy_at(es, week, day)
      live == {i \in 1 .. Len(es) : is_alive(es[i])}
      other == IF live = {} THEN 0 ELSE CHOOSE i \in live : \A j \in live : i <= j
      hit == IF enemy # 0 THEN enemy ELSE other
  IN IF hit # 0 THEN [es EXCEPT ![hit] = take_damage(@)] ELSE es

hit_target(es, week, day) ==
  LET enemy == get_enemy_at(es, week, day)
  IN IF enemy # 0 THEN [es EXCEPT ![enemy] = take_damage(@)] ELSE es

\* a clear_bullets that leaves the list as it is
clear_bullets_keeps(bs) == bs
clear_bullets(bs) == <<>>

get_alive_enemies(es) == SelectSeq(es, is_alive)
is_complete(es) == Len(get_alive_enemies(es)) = 0

\* ------------------------------------------- free-standing GameState calls
Op(name, week, day) == [name |-> name, week |-> week, day |-> day]
NoOp == Op("none", -1, -1)
\* the cells of the configured grid
GridCells == (0 .. NUM_WEEKS - 1) \X (0 .. NUM_DAYS - 1)
\* the coordinates hit_target is called with: every cell, one week and one day off the grid
HitCells == GridCells \cup {<<NUM_WEEKS, 0>>, <<0, NUM_DAYS>>}

AnimatorIdle ==
  /\ http_status = Absent /\ strategy = None /\ max_frame = Absent
  /\ actions = <<>> /\ action = None /\ bullet = 0 /\ step = 0
  /\ frames = <<>> /\ rendered = <<>>

\* a GameState constructed from any grid, driven directly through its methods
InitGS ==
  /\ contribution_data \in Grids
  /\ request = [entry |-> "GameState", strategy |-> None, token |-> FALSE]
  /\ AnimatorIdle
  /\ pc = "api"
  /\ ship = Ship
  /\ enemies = initialize_enemies(contribution_data)
  /\ bullets = <<>>
  /\ op = NoOp

\* what a GameState call leaves alone besides the game state; `bullet` is what the
\* call returned: the new bullet for shoot, None for the other methods
GSFrame == <<contribution_data, request, http_status, strategy, max_frame, actions, action,
             step, pc, frames, rendered>>

OpMoveTo ==
  \E week \in 0 .. NUM_WEEKS - 1 :
    /\ pc = "api"
    /\ ship' = move_to(ship, week)
    /\ op' = Op("move_to", week, -1)
    /\ bullet' = 0
    /\ UNCHANGED <<enemies, bullets>>
    /\ UNCHANGED GSFrame

OpShoot ==
  \E c \in GridCells :
    /\ pc = "api"
    /\ Len(bullets) < MaxBullets
    /\ bullets' = shoot(bullets, c[1], c[2])
    /\ bullet' = Len(bullets')
    /\ op' = Op("shoot", c[1], c[2])
    /\ UNCHANGED <<ship, enemies>>
    /\ UNCHANGED GSFrame

OpHitTarget ==
  \E c \in HitCells :
    /\ pc = "api"
    /\ enemies' = hit_target(enemies, c[1], c[2])
    /\ op' = Op("hit_target", c[1], c[2])
    /\ bullet' = 0
    /\ UNCHANGED <<ship, bullets>>
    /\ UNCHANGED GSFrame

OpClearBullets ==
  /\ pc = "api"
  /\ bullets' = clear_bullets(bullets)
  /\ op' = Op("clear_bullets", -1, -1)
  /\ bullet' = 0
  /\ UNCHANGED <<ship, enemies>>
  /\ UNCHANGED GSFrame

NextGS == OpMoveTo \/ OpShoot \/ OpHitTarget \/ OpClearBullets

SpecGS == InitGS /\ [][NextGS]_vars

\* --------------------------------------------------------------- Renderer
get_cell_position(week, day) ==
  <<padding + week * (CELL_SIZE + CELL_SPACING), padding + day * (CELL_SIZE + CELL_SPACING)>>

\* draw.rectangle([x, y, x + cell_size, y + cell_size], fill)
Rectangle(xy, fill) ==
  [shape |-> "rectangle", box |-> <<xy[1], xy[2], xy[1] + CELL_SIZE, xy[2] + CELL_SIZE>>, fill |-> fill]

\* the cells in the order of `for week in range(NUM_WEEKS): for day in range(NUM_DAYS)`
draw_grid ==
  [k \in 1 .. NUM_WEEKS * NUM_DAYS |->
     Rectangle(get_cell_position((k - 1) \div NUM_DAYS, (k - 1) % NUM_DAYS), COLOR_EMPTY)]

\* a lookup that falls back to the colour of the highest key
enemy_color_top(health) ==
  IF health \in DOMAIN COLOR_ENEMY THEN COLOR_ENEMY[health] ELSE COLOR_ENEMY[Len(COLOR_ENEMY)]

\* color_map.get(self.health, color_map[1])
enemy_color(health) == IF health \in DOMAIN COLOR_ENEMY THEN COLOR_ENEMY[health] ELSE COLOR_ENEMY[1]

\* what Enemy.draw paints: nothing for a dead enemy
Enemy_draw(e) ==
  IF ~is_alive(e) THEN <<>>
  ELSE <<Rectangle(get_cell_position(e.week, e.day), enemy_color(e.health))>>

ship_y == padding + NUM_DAYS * (CELL_SIZE + CELL_SPACING) + 10

\* what Bullet.draw paints: a circle at x, y with y = ship_y + (target_y - ship_y) * progress,
\* kept as the fraction (ship_y * den + (target_y - ship_y) * num) / den
Bullet_draw(b) ==
  LET x == get_cell_position(b.week, 0)[1] + CELL_SIZE \div 2
      target_y == get_cell_position(b.week, b.target_day)[2] + CELL_SIZE \div 2
      y == Fraction(ship_y * b.progress.den + (target_y - ship_y) * b.progress.num, b.progress.den)
  IN <<[shape |-> "ellipse", x |-> x, y |-> y, radius |-> radius, fill |-> COLOR_BULLET]>>

\* what Ship.draw paints: a triangle, left of the grid while week < 0
Ship_draw(s) ==
  LET x == IF s.week >= 0 THEN get_cell_position(s.week, 0)[1] ELSE padding - 20
  IN <<[shape |-> "polygon",
        points |-> <<<<x + CELL_SIZE \div 2, ship_y>>, <<x, ship_y + CELL_SIZE>>,
                     <<x + CELL_SIZE, ship_y + CELL_SIZE>>>>,
        fill |-> COLOR_SHIP]>>

RECURSIVE Flatten(_, _)
\* the first n lists of a list of lists, joined in order
Flatten(lists, n) == IF n = 0 THEN <<>> ELSE Flatten(lists, n - 1) \o lists[n]

\* a draw that paints the ship before the enemies and the bullets
GameState_draw_ship_first(s, es, bs) ==
  LET alive == get_alive_enemies(es)
  IN draw_grid
       \o Ship_draw(s)
       \o Flatten([k \in 1 .. Len(alive) |-> Enemy_draw(alive[k])], Len(alive))
       \o Flatten([k \in 1 .. Len(bs) |-> Bullet_draw(bs[k])], Len(bs))

\* GameState.draw: grid, alive enemies, bullets, ship
GameState_draw(s, es, bs) ==
  LET alive == get_alive_enemies(es)
  IN draw_grid
       \o Flatten([k \in 1 .. Len(alive) |-> Enemy_draw(alive[k])], Len(alive))
       \o Flatten([k \in 1 .. Len(bs) |-> Bullet_draw(bs[k])], Len(bs))
       \o Ship_draw(s)

\* Renderer.render_frame: a new image filled with the background, then GameState.draw
render_frame(s, es, bs) ==
  <<[shape |-> "background", size |-> <<width, height>>, fill |-> COLOR_BACKGROUND]>>
    \o GameState_draw(s, es, bs)

\* ------------------------------------- a GameState painted by a direct caller
\* grids of one week whose levels reach past the keys of COLOR_ENEMY
PaintGrids == [1 .. 1 -> [1 .. NUM_DAYS -> 0 .. TopLevel]]

\* GameState(contribution_data) and Renderer(game_state), built by a direct caller
InitPaint ==
  /\ contribution_data \in PaintGrids
  /\ request = [entry |-> "Renderer", strategy |-> None, token |-> FALSE]
  /\ AnimatorIdle
  /\ pc = "paint"
  /\ ship = Ship
  /\ enemies = initialize_enemies(contribution_data)
  /\ bullets = <<>>
  /\ op = NoOp

\* game_state.ship.move_to(week)
PaintMoveTo ==
  \E week \in 0 .. NUM_WEEKS - 1 :
    /\ pc = "paint"
    /\ ship' = move_to(ship, week)
    /\ op' = Op("move_to", week, -1)
    /\ UNCHANGED <<enemies, bullets, bullet>>
    /\ UNCHANGED GSFrame

\* game_state.hit_target(0, day)
PaintHitTarget ==
  \E day \in 0 .. NUM_DAYS - 1 :
    /\ pc = "paint"
    /\ enemies' = hit_target(enemies, 0, day)
    /\ op' = Op("hit_target", 0, day)
    /\ UNCHANGED <<ship, bullets, bullet>>
    /\ UNCHANGED GSFrame

\* renderer.render_frame(), the caller keeping the image it got last
PaintFrame ==
  /\ pc = "paint"
  /\ frames' = <<render_frame(ship, enemies, bullets)>>
  /\ rendered' = <<[site |-> "paint", ship |-> ship, enemies |-> enemies, bullets |-> bullets]>>
  /\ op' = Op("render_frame", -1, -1)
  /\ UNCHANGED <<contribution_data, request, http_status, strategy, max_frame, actions, action,
                 bullet, step, pc, ship, enemies, bullets>>

NextPaint == PaintMoveTo \/ PaintHitTarget \/ PaintFrame

SpecPaint == InitPaint /\ [][NextPaint]_vars

\* ------------------------------------------------------------- strategies
Action(week, day, shoot_flag) == [week |-> week, day |-> day, shoot |-> shoot_flag]
AllActions == {Action(w, d, f) : w \in 0 .. NUM_WEEKS - 1, d \in 0 .. NUM_DAYS - 1, f \in BOOLEAN}

\* the level of the cell an enemy stands on, 0 outside the grid
CellLevel(data, week, day) ==
  IF week + 1 \in 1 .. Len(data) /\ day + 1 \in 1 .. Len(data[week + 1])
  THEN data[week + 1][day + 1] ELSE 0

\* a traversal that shoots at every cell, empty or not
ShootEveryCell(data, order) == [k \in 1 .. Len(order) |-> Action(order[k][1], order[k][2], TRUE)]

\* one shoot action per non-empty cell of `order`, in that order
ShootNonEmpty(data, order) ==
  LET Occupied(c) == CellLevel(data, c[1], c[2]) > 0
      cells == SelectSeq(order, Occupied)
  IN [k \in 1 .. Len(cells) |-> Action(cells[k][1], cells[k][2], TRUE)]

DaysOf(data) == IF Len(data) = 0 THEN 0 ELSE Len(data[1])

\* weeks ascending, days ascending within each week
ColumnStrategy(data) ==
  LET D == DaysOf(data)
  IN ShootNonEmpty(data, [k \in 1 .. Len(data) * D |-> <<(k - 1) \div D, (k - 1) % D>>])

\* days ascending, weeks ascending within each day
RowStrategy(data) ==
  LET W == Len(data)
  IN ShootNonEmpty(data, [k \in 1 .. W * DaysOf(data) |-> <<(k - 1) % W, (k - 1) \div W>>])

Targets(acts) == {<<acts[k].week, acts[k].day>> : k \in {j \in 1 .. Len(acts) : acts[j].shoot}}

\* the random strategy: one shoot action per non-empty cell, in any order; the
\* actions it may emit after `yielded`
RandomStrategy(data, yielded) ==
  {Action(c[1], c[2], TRUE) : c \in NonEmptyCells(data) \ Targets(yielded)}

\* any other BaseStrategy: up to MaxActions actions, moves or shots, at any cells
CustomStrategy(data, yielded) == IF Len(yielded) < MaxActions THEN AllActions ELSE {}

\* `for action in self.strategy.generate_actions(...)`: the actions `strat` may hand
\* to the loop next, having handed over `yielded`
Yields(strat, data, yielded) ==
  LET n == Len(yielded)
      Rest(list) == IF n < Len(list) THEN {list[n + 1]} ELSE {}
  IN CASE strat = "ColumnStrategy" -> Rest(ColumnStrategy(data))
       [] strat = "RowStrategy" -> Rest(RowStrategy(data))
       [] strat = "RandomStrategy" -> RandomStrategy(data, yielded)
       [] OTHER -> CustomStrategy(data, yielded)

\* whether `strat` may end its sequence here
Exhausted(strat, data, yielded) ==
  strat \notin {"ColumnStrategy", "RowStrategy", "RandomStrategy"} \/ Yields(strat, data, yielded) = {}

\* -------------------------------------------------------------- web layer
STRATEGY_MAP ==
  [key \in {"column", "row", "random"} |->
     CASE key = "column" -> "ColumnStrategy" [] key = "row" -> "RowStrategy" [] OTHER -> "RandomStrategy"]

\* STRATEGY_MAP.get(strategy, RandomStrategy)
strategy_class(key) == IF key \in DOMAIN STRATEGY_MAP THEN STRATEGY_MAP[key] ELSE "RandomStrategy"

Selectors == {"column", "row", "random", "diagonal"}
Requests ==
  [entry : {"generate"}, strategy : Selectors, token : BOOLEAN]
    \cup [entry : {"generate_gif"}, strategy : Selectors, token : {TRUE}]
    \cup [entry : {"Animator"},
          strategy : {"ColumnStrategy", "RowStrategy", "RandomStrategy", "CustomStrategy"},
          token : {FALSE}]

\* ------------------------------------------------------------------- Init
Init ==
  /\ contribution_data \in Grids
  /\ request \in Requests
  /\ AnimatorIdle
  /\ pc = "idle"
  /\ ship = None
  /\ enemies = <<>>
  /\ bullets = <<>>
  /\ op = NoOp

game_state == <<ship, enemies, bullets>>
loop_locals == <<actions, action, bullet, step>>
call == <<contribution_data, request>>

\* main.generate_gif: picks the strategy class and hands over to the Animator.
\* (The fps, watermark and maxFrame keywords it passes are not parameters of the
\* Animator of animator.py, which reads none of them.)
generate_gif_body ==
  /\ strategy' = strategy_class(request.strategy)
  /\ max_frame' = Some(maxFrame)
  /\ pc' = "generate_gif"
  /\ UNCHANGED http_status

\* a handler without the `strategy not in STRATEGY_MAP` test
generate_lenient ==
  /\ pc = "idle" /\ request.entry = "generate"
  /\ IF ~request.token
     THEN http_status' = Some(500) /\ pc' = "rejected" /\ UNCHANGED <<strategy, max_frame>>
     ELSE generate_gif_body
  /\ UNCHANGED <<call, loop_locals, game_state, frames, rendered, op>>

\* GET /api/generate
generate ==
  /\ pc = "idle" /\ request.entry = "generate"
  /\ IF ~request.token
     THEN http_status' = Some(500) /\ pc' = "rejected" /\ UNCHANGED <<strategy, max_frame>>
     ELSE IF request.strategy \notin DOMAIN STRATEGY_MAP
          THEN http_status' = Some(400) /\ pc' = "rejected" /\ UNCHANGED <<strategy, max_frame>>
          ELSE generate_gif_body
  /\ UNCHANGED <<call, loop_locals, game_state, frames, rendered, op>>

\* main.generate_gif called by itself
generate_gif ==
  /\ pc = "idle" /\ request.entry = "generate_gif"
  /\ generate_gif_body
  /\ UNCHANGED <<call, loop_locals, game_state, frames, rendered, op>>

\* Animator(contribution_data, strategy) built by a caller of the library
Animator_init ==
  /\ pc = "idle" /\ request.entry = "Animator"
  /\ strategy' = request.strategy
  /\ pc' = "generate_gif"
  /\ UNCHANGED <<http_status, max_frame>>
  /\ UNCHANGED <<call, loop_locals, game_state, frames, rendered, op>>

\* a generate_gif that keeps a GameState that has been operated on
Animator_generate_gif_reusing ==
  /\ pc = "generate_gif"
  /\ IF op = NoOp
     THEN ship' = Ship /\ enemies' = initialize_enemies(contribution_data) /\ bullets' = <<>>
     ELSE UNCHANGED game_state
  /\ pc' = "initial"
  /\ UNCHANGED <<call, http_status, strategy, max_frame, loop_locals, frames, rendered, op>>

\* a generate_gif that refuses a grid of another shape
Animator_generate_gif_validating ==
  /\ pc = "generate_gif"
  /\ IF HasShape(contribution_data)
     THEN /\ ship' = Ship /\ enemies' = initialize_enemies(contribution_data) /\ bullets' = <<>>
          /\ pc' = "initial"
     ELSE pc' = "rejected" /\ UNCHANGED game_state
  /\ UNCHANGED <<call, http_status, strategy, max_frame, loop_locals, frames, rendered, op>>

\* Animator.generate_gif, lines 41-43: GameState(self.contribution_data), Renderer(game_state)
Animator_generate_gif ==
  /\ pc = "generate_gif"
  /\ ship' = Ship
  /\ enemies' = initialize_enemies(contribution_data)
  /\ bullets' = <<>>
  /\ pc' = "initial"
  /\ UNCHANGED <<call, http_status, strategy, max_frame, loop_locals, frames, rendered, op>>

\* generate_gif called once more on the same Animator: a new call with new locals;
\* contribution_data and strategy are the Animator's attributes, and the GameState of
\* the call before stays as it was left until line 42 builds the next one
Animator_generate_gif_again ==
  /\ pc = "saved" /\ request.entry = "Animator"
  /\ actions' = <<>> /\ action' = None /\ bullet' = 0 /\ step' = 0
  /\ frames' = <<>> /\ rendered' = <<>>
  /\ pc' = "generate_gif"
  /\ UNCHANGED <<call, http_status, strategy, max_frame, game_state, op>>

\* a render_frame whose draw pass drops the bullets it has painted
append_frame_consuming(site) ==
  /\ frames' = Append(frames, render_frame(ship, enemies, bullets))
  /\ rendered' = Append(rendered, [site |-> site, ship |-> ship, enemies |-> enemies,
                                   bullets |-> bullets])
  /\ bullets' = <<>>
  /\ UNCHANGED <<ship, enemies>>

\* frames.append(renderer.render_frame()) at the call site `site`
append_frame(site) ==
  /\ frames' = Append(frames, render_frame(ship, enemies, bullets))
  /\ rendered' = Append(rendered, [site |-> site, ship |-> ship, enemies |-> enemies,
                                   bullets |-> bullets])
  /\ UNCHANGED game_state

\* _generate_frames, lines 71-75
InitialFrame ==
  /\ pc = "initial"
  /\ append_frame("initial")
  /\ pc' = "loop"
  /\ UNCHANGED <<call, http_status, strategy, max_frame, loop_locals, op>>

\* lines 78-84: the next action, the ship moved to its week, the bullet fired
NextAction ==
  \E a \in Yields(strategy, contribution_data, actions) :
    /\ pc = "loop"
    /\ actions' = Append(actions, a)
    /\ action' = a
    /\ ship' = move_to(ship, a.week)
    /\ IF a.shoot
       THEN /\ bullets' = shoot(bullets, a.week, a.day)
            /\ bullet' = Len(bullets')
            /\ step' = 0
            /\ op' = Op("shoot", a.week, a.day)
            /\ pc' = "flight"
       ELSE /\ op' = Op("move_to", a.week, -1)
            /\ pc' = "move"
            /\ UNCHANGED <<bullets, bullet, step>>
    /\ UNCHANGED <<call, http_status, strategy, max_frame, enemies, frames, rendered>>

\* a flight loop that resolves the hit when the bullet leaves the ship
SetProgress_hitting ==
  /\ pc = "flight" /\ step < bullet_flight_steps
  /\ bullets' = [bullets EXCEPT ![bullet].progress = Fraction(step + 1, bullet_flight_steps)]
  /\ enemies' = IF step = 0 THEN hit_target(enemies, action.week, action.day) ELSE enemies
  /\ pc' = "flight_frame"
  /\ UNCHANGED <<call, http_status, strategy, max_frame, loop_locals, ship, frames, rendered, op>>

\* a flight loop that sets progress to step / bullet_flight_steps
SetProgress_from_zero ==
  /\ pc = "flight" /\ step < bullet_flight_steps
  /\ bullets' = [bullets EXCEPT ![bullet].progress = Fraction(step, bullet_flight_steps)]
  /\ pc' = "flight_frame"
  /\ UNCHANGED <<call, http_status, strategy, max_frame, loop_locals, ship, enemies,
                 frames, rendered, op>>

\* line 88: bullet.progress = (step + 1) / bullet_flight_steps
SetProgress ==
  /\ pc = "flight" /\ step < bullet_flight_steps
  /\ bullets' = [bullets EXCEPT ![bullet].progress = Fraction(step + 1, bullet_flight_steps)]
  /\ pc' = "flight_frame"
  /\ UNCHANGED <<call, http_status, strategy, max_frame, loop_locals, ship, enemies,
                 frames, rendered, op>>

\* line 89
FlightFrame ==
  /\ pc = "flight_frame"
  /\ append_frame("flight")
  /\ step' = step + 1
  /\ pc' = "flight"
  /\ UNCHANGED <<call, http_status, strategy, max_frame, actions, action, bullet, op>>

\* a flight that ends without resolving the hit
HitTarget_missing ==
  /\ pc = "flight" /\ step = bullet_flight_steps
  /\ op' = Op("hit_target", action.week, action.day)
  /\ pc' = "clear"
  /\ UNCHANGED <<call, http_status, strategy, max_frame, loop_locals, ship, enemies, bullets,
                 frames, rendered>>

\* line 92, once range(bullet_flight_steps) is used up
HitTarget ==
  /\ pc = "flight" /\ step = bullet_flight_steps
  /\ enemies' = hit_target(enemies, action.week, action.day)
  /\ op' = Op("hit_target", action.week, action.day)
  /\ pc' = "clear"
  /\ UNCHANGED <<call, http_status, strategy, max_frame, loop_locals, ship, bullets,
                 frames, rendered>>

\* line 95
ClearBullets ==
  /\ pc = "clear"
  /\ bullets' = clear_bullets(bullets)
  /\ bullet' = 0
  /\ op' = Op("clear_bullets", -1, -1)
  /\ pc' = "loop"
  /\ UNCHANGED <<call, http_status, strategy, max_frame, actions, action, step, ship,
                 enemies, frames, rendered>>

\* line 98
MoveFrame ==
  /\ pc = "move"
  /\ append_frame("move")
  /\ pc' = "loop"
  /\ UNCHANGED <<call, http_status, strategy, max_frame, loop_locals, op>>

\* a completion that appends one frame only
FinalFrame_single ==
  /\ pc = "loop" /\ Exhausted(strategy, contribution_data, actions)
  /\ append_frame("final")
  /\ pc' = "done"
  /\ UNCHANGED <<call, http_status, strategy, max_frame, loop_locals, op>>

\* line 101, once the strategy's actions are used up
FinalFrame ==
  /\ pc = "loop" /\ Exhausted(strategy, contribution_data, actions)
  /\ append_frame("final")
  /\ pc' = "hold"
  /\ UNCHANGED <<call, http_status, strategy, max_frame, loop_locals, op>>

\* line 102
HoldFrame ==
  /\ pc = "hold"
  /\ append_frame("hold")
  /\ pc' = "done"
  /\ UNCHANGED <<call, http_status, strategy, max_frame, loop_locals, op>>

\* Animator.generate_gif, lines 47-56, and the handler's Response
Save ==
  /\ pc = "done"
  /\ pc' = "saved"
  /\ http_status' = IF request.entry = "generate" THEN Some(200) ELSE http_status
  /\ UNCHANGED <<call, strategy, max_frame, loop_locals, game_state, frames, rendered, op>>

Next ==
  \/ generate \/ generate_gif \/ Animator_init \/ Animator_generate_gif
  \/ Animator_generate_gif_again
  \/ InitialFrame \/ NextAction \/ SetProgress \/ FlightFrame \/ HitTarget \/ ClearBullets
  \/ MoveFrame \/ FinalFrame \/ HoldFrame \/ Save

Spec == Init /\ [][Next]_vars

\* ------------------------------------------------------------------ claims

EnemyIdx == 1 .. Len(enemies)
\* the enemies a hit_target(week, day) call addresses: alive, at that cell
LiveAt(week, day) == {i \in EnemyIdx : enemies[i].week = week /\ enemies[i].day = day
                                       /\ enemies[i].health > 0}

\* C2: a hit_target(week, day) call on a cell holding a live enemy takes exactly 1
\* from that enemy's health and changes no other enemy; the enemy is non-alive
\* afterwards exactly when its health is 0; a hit_target at a cell whose enemy is
\* already dead changes no health.
C2_HitTakesOne ==
  [][(pc = "api" /\ op'.name = "hit_target") =>
       LET live == LiveAt(op'.week, op'.day)
       IN /\ Len(enemies') = Len(enemies)
          /\ Cardinality(live) <= 1
          /\ \A i \in live :
               /\ enemies'[i] = [enemies[i] EXCEPT !.health = enemies[i].health - 1]
               /\ (~is_alive(enemies'[i]) <=> enemies'[i].health = 0)
          /\ \A i \in EnemyIdx \ live : enemies'[i] = enemies[i]]_vars

\* a hit_target just addressed the cell of an enemy of level 2 that is now at
\* health 0, while another enemy stands untouched
C2_Witness ==
  /\ pc = "api" /\ op.name = "hit_target"
  /\ \E i, j \in EnemyIdx :
       /\ i # j
       /\ enemies[i].week = op.week /\ enemies[i].day = op.day
       /\ enemies[i].health = 0 /\ enemies[i].max_health = 2
       /\ enemies[j].health = enemies[j].max_health

\* C11: a hit_target(week, day) call on a cell with no live enemy (an empty cell, a
\* destroyed enemy, coordinates outside the grid) completes and leaves every enemy,
\* the bullet collection and the ship as they were.
C11_HitWithoutEnemyNoOp ==
  [][(pc = "api" /\ op'.name = "hit_target" /\ LiveAt(op'.week, op'.day) = {}) =>
       /\ enemies' = enemies
       /\ bullets' = bullets
       /\ ship' = ship]_vars

\* a hit_target call just addressed a week outside the grid, with a bullet in the
\* collection, the ship on the grid, one enemy destroyed and one alive
C11_Witness ==
  /\ pc = "api" /\ op = Op("hit_target", NUM_WEEKS, 0)
  /\ Len(bullets) > 0 /\ ship.week >= 0
  /\ \E i, j \in EnemyIdx : ~is_alive(enemies[i]) /\ is_alive(enemies[j])

\* the number of non-empty cells that come before (week, day) in week-major order
CellRank(data, week, day) ==
  Cardinality({c \in NonEmptyCells(data) : c[1] < week \/ (c[1] = week /\ c[2] < day)})

\* C15: construction creates one enemy per cell with level > 0 and none for a level-0
\* cell, each at its cell with health = max_health = the cell's level; afterwards no
\* operation adds, removes, reorders or repositions an enemy: no two enemies share a
\* cell and the collection keeps the length and order construction gave it.
C15_EnemiesFixed ==
  /\ Len(enemies) = Cardinality(NonEmptyCells(contribution_data))
  /\ \A i \in EnemyIdx :
       /\ <<enemies[i].week, enemies[i].day>> \in NonEmptyCells(contribution_data)
       /\ enemies[i].max_health = contribution_data[enemies[i].week + 1][enemies[i].day + 1]
       /\ CellRank(contribution_data, enemies[i].week, enemies[i].day) = i - 1
       /\ (op = NoOp => enemies[i].health = enemies[i].max_health)
  /\ \A i, j \in EnemyIdx :
       (enemies[i].week = enemies[j].week /\ enemies[i].day = enemies[j].day) => i = j

\* a grid with an empty first cell and a level-1 second cell: after move_to, shoot and
\* hit_target calls the one enemy is destroyed and still the only element
C15_Witness ==
  /\ pc = "api" /\ op.name = "hit_target" /\ Len(bullets) > 0 /\ ship.week >= 0
  /\ Len(contribution_data) = 2 /\ CellLevel(contribution_data, 0, 0) = 0
  /\ Len(enemies) = 1 /\ enemies[1].week = 1 /\ enemies[1].health = 0

\* C16: shoot(week, day) appends exactly one bullet with progress 0.0 targeting
\* (week, day) to the bullet collection, keeps the bullets already there, and returns
\* that same bullet; every enemy and the ship stay as they were.
C16_ShootAppendsOne ==
  [][(pc = "api" /\ op'.name = "shoot") =>
       /\ Len(bullets') = Len(bullets) + 1
       /\ \A i \in 1 .. Len(bullets) : bullets'[i] = bullets[i]
       /\ bullets'[Len(bullets')].week = op'.week
       /\ bullets'[Len(bullets')].target_day = op'.day
       /\ bullets'[Len(bullets')].progress.num = 0
       /\ bullet' = Len(bullets')
       /\ enemies' = enemies
       /\ ship' = ship]_vars

\* a second shoot call just returned the second bullet of the collection, aimed at
\* another week than the first, with an enemy damaged and the ship on the grid
C16_Witness ==
  /\ pc = "api" /\ op.name = "shoot"
  /\ Len(bullets) = 2 /\ bullet = 2
  /\ bullets[2].week = op.week /\ bullets[1].week # bullets[2].week
  /\ ship.week >= 0
  /\ \E i \in EnemyIdx : enemies[i].health < enemies[i].max_health

\* C10: whatever sequence of move_to, shoot, hit_target and clear_bullets calls is
\* made, every enemy has 0 <= health <= max_health, and max_health is the level of
\* the cell the enemy was spawned from.
C10_HealthRange ==
  \A i \in EnemyIdx :
    /\ 0 <= enemies[i].health
    /\ enemies[i].health <= enemies[i].max_health
    /\ enemies[i].max_health = CellLevel(contribution_data, enemies[i].week, enemies[i].day)

\* the ship was moved, a bullet is in the collection, and an enemy of level 2 is at
\* health 0 after a hit_target call addressed its cell once more
C10_Witness ==
  /\ pc = "api" /\ ship.week >= 0 /\ Len(bullets) > 0
  /\ op.name = "hit_target"
  /\ \E i \in EnemyIdx : /\ enemies[i].week = op.week /\ enemies[i].day = op.day
                         /\ enemies[i].health = 0 /\ enemies[i].max_health = 2

\* ------------------------------------------------- claims on frame generation
Finished == pc \in {"done", "saved"}
\* the number of yielded actions whose shoot flag is `flag`
CountShoot(acts, flag) == Cardinality({k \in 1 .. Len(acts) : acts[k].shoot = flag})
FrameIdx == 1 .. Len(frames)
AllEmpty(data) == NonEmptyCells(data) = {}
\* the shoot actions of `acts` address every non-empty cell exactly once and nothing else
ExactlyOnce(data, acts) ==
  /\ Targets(acts) = NonEmptyCells(data)
  /\ CountShoot(acts, TRUE) = Cardinality(NonEmptyCells(data))

\* C1: frame generation returns exactly 1 + M + N*5 + 2 frames, M the number of
\* actions with shoot=false and N the number with shoot=true; N is the number of
\* non-empty cells when the actions shoot every non-empty cell exactly once.
C1_FrameCount ==
  Finished =>
    /\ Len(frames) = 1 + CountShoot(actions, FALSE) + CountShoot(actions, TRUE) * 5 + 2
    /\ (ExactlyOnce(contribution_data, actions) =>
          CountShoot(actions, TRUE) = Cardinality(NonEmptyCells(contribution_data)))

\* a finished run of one move and one shot: 1 + 1 + 5 + 2 frames
C1_Witness ==
  /\ pc = "done"
  /\ CountShoot(actions, FALSE) = 1 /\ CountShoot(actions, TRUE) = 1
  /\ Len(frames) = 9

\* the properties C3 asks of one strategy's action list
CoversGrid(data, list) ==
  /\ \A k \in 1 .. Len(list) : list[k].shoot /\ CellLevel(data, list[k].week, list[k].day) > 0
  /\ Targets(list) = NonEmptyCells(data)
  /\ Len(list) = Cardinality(NonEmptyCells(data))
  /\ (AllEmpty(data) => list = <<>>)

\* C3: for every grid the column-first and the row-first strategy emit one shoot
\* action per cell with level > 0: the targets are exactly the non-empty cells, none
\* twice, none empty; an all-empty grid gives the empty sequence. The sequencer
\* replays exactly that list.
C3_StrategyCoversGrid ==
  /\ CoversGrid(contribution_data, ColumnStrategy(contribution_data))
  /\ CoversGrid(contribution_data, RowStrategy(contribution_data))
  /\ (Finished /\ strategy = "ColumnStrategy" => actions = ColumnStrategy(contribution_data))
  /\ (Finished /\ strategy = "RowStrategy" => actions = RowStrategy(contribution_data))

\* a finished row-first run over a grid with an empty and a non-empty cell
C3_Witness ==
  /\ pc = "done" /\ strategy = "RowStrategy"
  /\ Len(actions) = 1 /\ Len(contribution_data) = NUM_WEEKS
  /\ actions = RowStrategy(contribution_data)

UnknownSelector == request.strategy \notin DOMAIN STRATEGY_MAP

\* C5 as stated: a request with a token and a selector other than column, row, random
\* is not rejected and is served with the random strategy.
C5_UnknownSelectorServed ==
  (request.entry = "generate" /\ request.token /\ UnknownSelector /\ pc # "idle") =>
    (pc # "rejected" /\ http_status \notin {Some(400), Some(500)} /\ strategy = "RandomStrategy")

\* C5 as amended: the /api/generate handler answers a request whose selector is not
\* one of column, row, random with 400 (500 when no token is configured) and starts no
\* generation; generate_gif called by itself maps such a selector to the random strategy.
C5_HandlerRejectsUnknown ==
  /\ (request.entry = "generate" /\ UnknownSelector /\ pc # "idle") =>
       /\ pc = "rejected"
       /\ http_status = (IF request.token THEN Some(400) ELSE Some(500))
       /\ strategy = None /\ enemies = <<>> /\ frames = <<>>
  /\ (request.entry = "generate_gif" /\ UnknownSelector /\ pc # "idle") =>
       strategy = "RandomStrategy"

\* the handler has answered 400 to a request with a token and the selector "diagonal"
C5_Witness ==
  /\ request.entry = "generate" /\ request.token /\ request.strategy = "diagonal"
  /\ pc = "rejected" /\ http_status = Some(400)

\* C6 as stated: for a grid of another shape than NUM_WEEKS x NUM_DAYS no enemy is
\* created, no action applied and no frame rendered.
C6_ShapeRejectedFirst ==
  ~HasShape(contribution_data) =>
    (enemies = <<>> /\ actions = <<>> /\ frames = <<>>)

Constructed == pc \notin {"idle", "rejected", "generate_gif"}

\* C6 as amended: the shape of the grid is not checked. No run is refused for it; the
\* GameState gets one enemy per cell with level > 0 of the grid as given, and the
\* initial frame is rendered from it.
C6_ShapeUnchecked ==
  ~HasShape(contribution_data) =>
    /\ (pc = "rejected" => request.entry = "generate" /\ (~request.token \/ UnknownSelector))
    /\ (Constructed =>
          /\ Len(enemies) = Cardinality(NonEmptyCells(contribution_data))
          /\ \A c \in NonEmptyCells(contribution_data) :
               \E i \in EnemyIdx : enemies[i].week = c[1] /\ enemies[i].day = c[2])
    /\ (Constructed /\ pc # "initial" =>
          /\ Len(frames) >= 1
          /\ rendered[1] = [site |-> "initial", ship |-> Ship,
                            enemies |-> initialize_enemies(contribution_data), bullets |-> <<>>])

\* a grid with fewer weeks than NUM_WEEKS has its enemy and its initial frame
C6_Witness ==
  /\ Len(contribution_data) < NUM_WEEKS
  /\ pc = "loop" /\ Len(enemies) >= 1 /\ Len(frames) = 1

\* C7: an all-empty grid with an empty action sequence gives exactly 3 frames, all
\* rendered from the same state: no enemies, no bullets, ship at column -1.
C7_EmptyGridThreeFrames ==
  (Finished /\ AllEmpty(contribution_data) /\ actions = <<>>) =>
    /\ Len(frames) = 3
    /\ \A i \in FrameIdx :
         /\ rendered[i].enemies = <<>> /\ rendered[i].bullets = <<>>
         /\ rendered[i].ship.week = -1
         /\ frames[i] = frames[1]

\* a finished run over an all-empty grid of the configured shape, no action yielded
C7_Witness ==
  /\ pc = "done" /\ AllEmpty(contribution_data) /\ HasShape(contribution_data)
  /\ actions = <<>> /\ Len(frames) = 3

C9_OneBulletInFlight ==
  /\ Len(bullets) <= 1
  /\ (pc = "loop" => bullets = <<>>)
  /\ \A i \in FrameIdx :
       Len(rendered[i].bullets) = (IF rendered[i].site = "flight" THEN 1 ELSE 0)

\* a finished run with flight frames and a move frame
C9_Witness ==
  /\ pc = "done"
  /\ \E i, j \in FrameIdx : rendered[i].site = "flight" /\ rendered[j].site = "move" /\ i < j

\* --------------------------------------------- claims on the order of the steps
\* the frame record r is a flight frame whose bullet has arrived
LastFlight(r) ==
  /\ r.site = "flight" /\ Len(r.bullets) >= 1
  /\ r.bullets[1].progress = Fraction(bullet_flight_steps, bullet_flight_steps)

\* `after` is `before` with one point taken from the live enemy at (week, day), if any
AfterHit(before, after, week, day) ==
  LET live == {i \in 1 .. Len(before) : before[i].week = week /\ before[i].day = day
                                         /\ before[i].health > 0}
  IN /\ Len(after) = Len(before)
     /\ Cardinality(live) <= 1
     /\ \A i \in live : after[i] = [before[i] EXCEPT !.health = before[i].health - 1]
     /\ \A i \in (1 .. Len(before)) \ live : after[i] = before[i]

\* C12: all bullet_flight_steps flight frames of a shoot action show the enemies at
\* their pre-shot health; the hit is applied after the last flight frame and the
\* bullets are cleared after it with no frame rendered in between; the damage shows
\* in the next frame rendered, and only a last flight frame is followed by a change.
\* The first two conjuncts read the frames of a finished run, the others the run in
\* progress.
C12_DamageAfterFlight ==
  /\ Finished =>
       \A i \in FrameIdx :
         LastFlight(rendered[i]) =>
           /\ i > bullet_flight_steps
           /\ \A k \in 1 .. bullet_flight_steps - 1 :
                /\ rendered[i - k].site = "flight"
                /\ rendered[i - k].enemies = rendered[i].enemies
           /\ rendered[i - bullet_flight_steps].site # "flight"
                \/ LastFlight(rendered[i - bullet_flight_steps])
  /\ Finished =>
       \A i \in 1 .. Len(frames) - 1 :
         IF LastFlight(rendered[i])
         THEN AfterHit(rendered[i].enemies, rendered[i + 1].enemies,
                       rendered[i].bullets[1].week, rendered[i].bullets[1].target_day)
         ELSE rendered[i + 1].enemies = rendered[i].enemies
  /\ (pc \in {"flight", "flight_frame"} /\ step > 0 => enemies = rendered[Len(frames)].enemies)
  /\ (pc = "clear" =>
        /\ LastFlight(rendered[Len(frames)])
        /\ bullets = rendered[Len(frames)].bullets
        /\ AfterHit(rendered[Len(frames)].enemies, enemies, action.week, action.day))
  /\ (pc = "loop" /\ Len(frames) > 1 /\ LastFlight(rendered[Len(frames)]) =>
        bullets = <<>> /\ op.name = "clear_bullets")

\* a finished run whose last flight frame shows an enemy at health 2 and whose first
\* completion frame shows it at health 1
C12_Witness ==
  /\ pc = "done"
  /\ \E i \in 1 .. Len(frames) - 1 :
       /\ LastFlight(rendered[i]) /\ rendered[i + 1].site = "final"
       /\ \E e \in EnemyIdx : /\ rendered[i].enemies[e].health = 2
                               /\ rendered[i + 1].enemies[e].health = 1
                               /\ rendered[i].enemies[e].week = rendered[i].bullets[1].week

\* the fractions a and b compared by value
FracEq(a, b) == a.num * b.den = b.num * a.den
FracLess(a, b) == a.num * b.den < b.num * a.den
\* the progress of the bullet of a flight frame
ProgressOf(r) == r.bullets[1].progress
RECURSIVE FlightRun(_)
\* the number of flight frames in a row that end with frame i
FlightRun(i) == IF i = 0 \/ rendered[i].site # "flight" THEN 0 ELSE 1 + FlightRun(i - 1)
\* the place of flight frame i within the flight frames of its action, counted from
\* 1: the flight frames since the last other frame, in groups of bullet_flight_steps
FlightIndex(i) == ((FlightRun(i) - 1) % bullet_flight_steps) + 1

\* C13: in the frames of a finished run, the k-th flight frame of a shoot action
\* (k = 1 .. bullet_flight_steps) shows the bullet at progress k / bullet_flight_steps:
\* it grows strictly from frame to frame, lies in (0, 1], is 1 in the last flight
\* frame, and no frame shows a bullet at progress 0.
C13_ProgressLinear ==
  Finished =>
    /\ \A i \in FrameIdx :
         rendered[i].site = "flight" =>
           \A k \in {FlightIndex(i)} : \A p \in {ProgressOf(rendered[i])} :
              /\ Len(rendered[i].bullets) = 1
              /\ FracEq(p, Fraction(k, bullet_flight_steps))
              /\ FracLess(Fraction(0, 1), p) /\ ~FracLess(Fraction(1, 1), p)
              /\ (k > 1 => FracLess(ProgressOf(rendered[i - 1]), p))
              /\ (k < bullet_flight_steps =>
                    i < Len(frames) /\ rendered[i + 1].site = "flight")
              /\ (k = bullet_flight_steps => FracEq(p, Fraction(1, 1)))
              /\ (FracEq(p, Fraction(1, 1)) => k = bullet_flight_steps)
    /\ \A i \in FrameIdx : \A b \in 1 .. Len(rendered[i].bullets) :
         ~FracEq(rendered[i].bullets[b].progress, Fraction(0, 1))

\* a finished run whose frames 2 to 6 are the flight frames of the first action, at
\* progress 1/5, 2/5, 3/5, 4/5 and 5/5
C13_Witness ==
  /\ pc = "done" /\ Len(frames) > bullet_flight_steps
  /\ \A k \in 1 .. bullet_flight_steps :
       /\ rendered[1 + k].site = "flight"
       /\ ProgressOf(rendered[1 + k]) = Fraction(k, bullet_flight_steps)

\* the number of frames one action renders
FramesOf(a) == IF a.shoot THEN bullet_flight_steps ELSE 1
RECURSIVE FramesThrough(_, _)
\* the number of frames the first n actions of acts render
FramesThrough(acts, n) == IF n = 0 THEN 0 ELSE FramesThrough(acts, n - 1) + FramesOf(acts[n])
\* the action during which frame i (a flight or move frame) was rendered; 0 if none
ActionOfFrame(i) ==
  LET during == {k \in 1 .. Len(actions) : 1 + FramesThrough(actions, k - 1) < i
                                           /\ i <= 1 + FramesThrough(actions, k)}
  IN IF during = {} THEN 0 ELSE CHOOSE k \in during : TRUE

\* C14: in the frames of a finished run, the initial frame shows the ship at column
\* -1; every frame rendered while an action is processed shows the ship at that
\* action's week, and in every flight frame the bullet's week is the ship's week; the
\* two completion frames show the ship at the last action's week, or at -1 when there
\* were no actions.
C14_ShipFollowsAction ==
  Finished => \A i \in FrameIdx :
    \A r \in {rendered[i]} : \A k \in {ActionOfFrame(i)} :
       /\ (i = 1 <=> r.site = "initial")
       /\ (r.site = "initial" => r.ship.week = -1)
       /\ (r.site \in {"flight", "move"} =>
             /\ k # 0
             /\ r.ship.week = actions[k].week
             /\ (r.site = "flight" <=> actions[k].shoot))
       /\ (r.site = "flight" =>
             /\ r.bullets[1].week = r.ship.week
             /\ r.bullets[1].target_day = actions[k].day)
       /\ (r.site \in {"final", "hold"} =>
             /\ k = 0
             /\ r.ship.week = IF actions = <<>> THEN -1 ELSE actions[Len(actions)].week)

\* a finished run that moved to week 1 and then shot from week 0: the move frame
\* shows the ship at 1, the flight and completion frames at 0
C14_Witness ==
  /\ pc = "done" /\ Len(actions) = 2
  /\ ~actions[1].shoot /\ actions[1].week = 1
  /\ actions[2].shoot /\ actions[2].week = 0
  /\ rendered[2].ship.week = 1 /\ rendered[3].ship.week = 0
  /\ rendered[Len(frames)].ship.week = 0

\* C17: no step changes a cell level of the contribution data, and every GameState
\* construction, the one of a second generate_gif call on the same Animator included,
\* starts from one enemy per non-empty cell at full health, the ship at -1 and no
\* bullets.
C17_GridNeverMutated ==
  [][/\ contribution_data' = contribution_data
     /\ (pc = "generate_gif" /\ pc' = "initial") =>
          /\ ship'.week = -1
          /\ bullets' = <<>>
          /\ Len(enemies') = Cardinality(NonEmptyCells(contribution_data))
          /\ \A i \in 1 .. Len(enemies') :
               /\ enemies'[i].health = enemies'[i].max_health
               /\ enemies'[i].health =
                    CellLevel(contribution_data, enemies'[i].week, enemies'[i].day)]_vars

\* the GameState of a second generation has just been built: the generation before
\* ended with clear_bullets after shooting both enemies of the grid
C17_Witness ==
  /\ pc = "initial" /\ op.name = "clear_bullets" /\ frames = <<>>
  /\ Len(enemies) = 2 /\ ship.week = -1 /\ bullets = <<>>
  /\ \A i \in EnemyIdx : enemies[i].health = enemies[i].max_health

\* ------------------------------------------------------ claims on the painting
\* the box of the cell (week, day)
CellBox(week, day) ==
  LET xy == get_cell_position(week, day)
  IN <<xy[1], xy[2], xy[1] + CELL_SIZE, xy[2] + CELL_SIZE>>
\* the indices of the enemies of a frame record that are alive
AliveIn(r) == {e \in 1 .. Len(r.enemies) : r.enemies[e].health > 0}
\* the number of alive enemies of r that stand before enemy e in the collection
AliveBefore(r, e) == Cardinality({d \in AliveIn(r) : d < e})

\* the display list f paints the state r in the order background, grid cells, alive
\* enemies, bullets, ship
PaintsInOrder(f, r) ==
  LET G == NUM_WEEKS * NUM_DAYS
      A == Cardinality(AliveIn(r))
      B == Len(r.bullets)
  IN /\ Len(f) = 1 + G + A + B + 1
     /\ f[1].shape = "background"
     /\ \A k \in 2 .. G + 1 : f[k].shape = "rectangle" /\ f[k].fill = COLOR_EMPTY
     /\ \A e \in AliveIn(r) :
          LET k == G + 1 + AliveBefore(r, e) + 1
          IN /\ f[k].shape = "rectangle"
             /\ f[k].box = CellBox(r.enemies[e].week, r.enemies[e].day)
             /\ f[k].fill # COLOR_EMPTY
     /\ \A k \in G + A + 2 .. G + A + B + 1 : f[k].shape = "ellipse"
     /\ f[Len(f)].shape = "polygon" /\ f[Len(f)].fill = COLOR_SHIP
     /\ \A k \in 1 .. Len(f) - 1 : f[k].shape # "polygon"
     /\ \A e \in (1 .. Len(r.enemies)) \ AliveIn(r) : \A k \in G + 2 .. Len(f) :
          ~(f[k].shape = "rectangle" /\ f[k].box = CellBox(r.enemies[e].week, r.enemies[e].day))

\* C18: every frame render_frame returns paints, in this order, the background, all
\* NUM_WEEKS x NUM_DAYS grid cells, one rectangle per alive enemy, one circle per
\* bullet, and the ship; the ship is painted in every frame and last, also at column
\* -1, and no enemy with health <= 0 is painted.
C18_DrawOrder ==
  [][Len(frames') > Len(frames) =>
       PaintsInOrder(frames'[Len(frames')],
                     [ship |-> ship', enemies |-> enemies', bullets |-> bullets'])]_vars

\* a finished run with a flight frame rendered while one enemy was destroyed and
\* another alive, and with the initial frame's ship at column -1
C18_Witness ==
  /\ pc = "done"
  /\ rendered[1].ship.week = -1 /\ frames[1][Len(frames[1])].shape = "polygon"
  /\ \E i \in FrameIdx :
       /\ rendered[i].site = "flight"
       /\ AliveIn(rendered[i]) # {}
       /\ AliveIn(rendered[i]) # 1 .. Len(rendered[i].enemies)

\* the colour of the rectangle frame f paints for enemy e of its record r
PaintedColor(f, r, e) == f[1 + NUM_WEEKS * NUM_DAYS + AliveBefore(r, e) + 1].fill

\* C19: an alive enemy is painted in the colour COLOR_ENEMY holds for its current
\* health (not for its max_health) when that health is one of the keys 1..4, and in
\* the colour of key 1 when its health is above the highest key.
C19_ColorByHealth ==
  \A i \in FrameIdx : \A e \in AliveIn(rendered[i]) :
    LET health == rendered[i].enemies[e].health
        level == rendered[i].enemies[e].max_health
        painted == PaintedColor(frames[i], rendered[i], e)
    IN /\ (health \in 1 .. 4 => painted = COLOR_ENEMY[health])
       /\ (health > 4 => painted = COLOR_ENEMY[1])
       /\ (health \in 1 .. 4 /\ level \in 1 .. 4 /\ level # health =>
             painted # COLOR_ENEMY[level])

\* the frame the caller holds shows an enemy of level 6 at health 5 in the colour of
\* key 1, and the enemy has since been hit down to health 3
C19_Witness ==
  /\ pc = "paint" /\ Len(frames) = 1 /\ Len(enemies) = 1
  /\ rendered[1].enemies[1].max_health = 6 /\ rendered[1].enemies[1].health = 5
  /\ PaintedColor(frames[1], rendered[1], 1) = COLOR_ENEMY[1]
  /\ enemies[1].health = 3

\* C20: once the actions of a strategy that shoots every non-empty cell exactly once
\* have been replayed, every enemy's health is its level minus 1: the enemies of
\* level 1 are destroyed, every enemy of level >= 2 is alive in both completion
\* frames, and is_complete() holds exactly when no cell has a level >= 2.
C20_OneShotEach ==
  (Finished /\ ExactlyOnce(contribution_data, actions)) =>
    /\ \A i \in EnemyIdx :
         LET level == CellLevel(contribution_data, enemies[i].week, enemies[i].day)
         IN /\ enemies[i].health = level - 1
            /\ (level = 1 => ~is_alive(enemies[i]))
            /\ (level >= 2 => is_alive(enemies[i]))
            /\ \A f \in FrameIdx :
                 rendered[f].site \in {"final", "hold"} =>
                   /\ rendered[f].enemies[i].health = level - 1
                   /\ (level >= 2 <=> i \in AliveIn(rendered[f]))
    /\ (is_complete(enemies) <=>
          \A c \in NonEmptyCells(contribution_data) : CellLevel(contribution_data, c[1], c[2]) < 2)

\* a finished random-order run over a grid with a level-1 and a level-2 cell: the
\* first enemy is destroyed, the second alive at health 1, the game not complete
C20_Witness ==
  /\ pc = "done" /\ strategy = "RandomStrategy"
  /\ Len(enemies) = 2 /\ Len(actions) = 2
  /\ enemies[1].max_health = 1 /\ enemies[1].health = 0
  /\ enemies[2].max_health = 2 /\ enemies[2].health = 1
  /\ ~is_complete(enemies)

====
